---- MODULE Spec2Model ----
(***************************************************************************)
(* GstPromise (gst/gstpromise.c): one promise object shared by several     *)
(* threads.  Every public function is a sequence of steps of the calling   *)
(* thread; the steps are cut at the points where other threads can         *)
(* interfere: g_mutex_lock, g_mutex_unlock, g_cond_wait, the call-out to   *)
(* the change function, the call-out to the destroy notify, and the reads  *)
(* that the code performs without holding the mutex.                       *)
(*                                                                         *)
(* g_return_if_fail / g_return_val_if_fail are modelled as GLib builds     *)
(* them by default (G_DISABLE_CHECKS not defined): a failing check logs a  *)
(* critical and returns from the function.                                 *)
(***************************************************************************)
EXTENDS Integers, Sequences, FiniteSets, TLC

\* ---------------------------------------------------------------- bounds
NumThreads == 3      \* threads that call into the promise
MaxCalls == 3        \* public calls made over the promise's lifetime
MaxPayloads == 2     \* GstStructure replies allocated by callers
MaxInstalls == 2     \* gst_promise_set_change_callback calls

Threads == 1..NumThreads
NoThread == 0
NULL == 0

\* ------------------------------------------------------- GstPromiseResult
PENDING == "PENDING"
INTERRUPTED == "INTERRUPTED"
REPLIED == "REPLIED"
EXPIRED == "EXPIRED"
GstPromiseResult == {PENDING, INTERRUPTED, REPLIED, EXPIRED}
NoResult == "NONE"   \* no GstPromiseResult returned

VARIABLES
  pub_result,    \* GstPromise.result, the public field of gstpromise.h
  pub_promise,   \* GstPromise.promise, the public field of gstpromise.h
  result,        \* GstPromiseImpl.result
  reply,         \* GstPromiseImpl.reply: NULL or the id of a GstStructure
  lock,          \* GstPromiseImpl.lock: the thread holding it, or NoThread
  cond,          \* GstPromiseImpl.cond: threads blocked in g_cond_wait
  change_func,   \* GstPromiseImpl.change_func: TRUE iff non-NULL
  user_data,     \* GstPromiseImpl.user_data: NULL or an installation id
  notify,        \* GstPromiseImpl.notify: TRUE iff non-NULL
  alive,         \* FALSE once gst_promise_free has run
  th,            \* per thread: position in the current call and its locals
  calls,         \* number of public calls started so far
  heap,          \* heap[s]: how many times GstStructure s has been freed
  installs,      \* per change-callback installation: what was installed,
                 \* how often its function and its notify were invoked
  warnings,      \* g_warn_if_fail diagnostics raised by gst_promise_free
  firstLocker,   \* first of reply/interrupt/expire to acquire the mutex
  winner,        \* the call that moved the result out of PENDING, and the
                 \* change callback slot at that moment
  last           \* the call that returned most recently: its arguments,
                 \* its return value and whether it logged a critical

vars == <<result, reply, lock, cond, change_func, user_data, notify, alive,
          th, calls, heap, installs, warnings, firstLocker, winner, last,
          pub_result, pub_promise>>

\* A thread that is not inside a call.
IdleThread ==
  [pc |-> "idle", op |-> "none", promise |-> FALSE, s |-> NULL,
   ret |-> NoResult, func |-> FALSE, data |-> NULL, ntf |-> FALSE,
   prev_notify |-> FALSE, prev_data |-> NULL]

\* No call has returned yet.
NoCall ==
  [op |-> "none", promise |-> FALSE, s |-> NULL, ret |-> NoResult,
   ret_reply |-> NULL, crit |-> FALSE]

\* Thread t returns from the call whose locals are c: with result code ret,
\* reply pointer ret_reply, and crit telling whether g_return_if_fail logged
\* a critical.
ReturnFrom(t, c, ret, ret_reply, crit) ==
  /\ th' = [th EXCEPT ![t] = IdleThread]
  /\ last' = [op |-> c.op, promise |-> c.promise, s |-> c.s,
              ret |-> ret, ret_reply |-> ret_reply, crit |-> crit]

Return(t, ret, ret_reply, crit) == ReturnFrom(t, th[t], ret, ret_reply, crit)

\* Nothing has moved the result out of PENDING yet.
NoWinner == [op |-> "none", s |-> NULL, func |-> FALSE, data |-> NULL]

\* Thread t moves the result out of PENDING.
Wins(t) ==
  winner' = [op |-> th[t].op, s |-> th[t].s, func |-> change_func,
             data |-> user_data]

\* The locals of a thread that enters op with the given promise argument
\* (TRUE: the promise, FALSE: NULL).
Entering(op, p) == [IdleThread EXCEPT !.op = op, !.promise = p]

\* gst_structure_free (s)
gst_structure_free(h, s) == [h EXCEPT ![s] = @ + 1]

\* The thread can start a new call: it is outside any call, the promise
\* still exists (the caller holds a reference), and the budget allows it.
\* Threads outside a call are interchangeable, so the next call is made by
\* the lowest-numbered of them.
CanCall(t) ==
  /\ alive
  /\ th[t].pc = "idle"
  /\ \A u \in Threads : u < t => th[u].pc # "idle"
  /\ calls < MaxCalls

\* gst_promise_new / gst_promise_init: g_new0 zeroes the whole
\* GstPromiseImpl, so the public fields of the embedded GstPromise and the
\* change callback fields are 0; init sets reply to NULL and result to
\* PENDING.
gst_promise_new ==
  /\ pub_result = PENDING
  /\ pub_promise = NULL
  /\ result = PENDING
  /\ reply = NULL
  /\ lock = NoThread
  /\ cond = {}
  /\ change_func = FALSE
  /\ user_data = NULL
  /\ notify = FALSE
  /\ alive = TRUE

Init ==
  /\ gst_promise_new
  /\ th = [t \in Threads |-> IdleThread]
  /\ calls = 0
  /\ heap = <<>>
  /\ installs = <<>>
  /\ warnings = 0
  /\ firstLocker = "none"
  /\ winner = NoWinner
  /\ last = NoCall

\* g_mutex_lock (GST_PROMISE_LOCK (promise)) can return
MutexFree == lock = NoThread

\* Faulty variant: g_cond_signal, which wakes a single waiter.
g_cond_signal(waiters) ==
  IF waiters = {} THEN {} ELSE waiters \ {CHOOSE w \in waiters : TRUE}

\* g_cond_broadcast (GST_PROMISE_COND (promise)): the threads still blocked
\* in g_cond_wait afterwards, given those blocked before
g_cond_broadcast(waiters) == {}

\* Faulty variant: the change function and data of the first installation
\* are called, whatever the promise holds now.
InvokeChangeFunc_stale(ins, data) ==
  IF data = NULL THEN ins
  ELSE [ins EXCEPT ![1].fired = @ + 1, ![1].seen = pub_result]

\* GST_PROMISE_CHANGE_FUNC (promise) (promise, GST_PROMISE_CHANGE_DATA (promise))
\* The change function counts its invocations and records promise->result,
\* as on_change of the tests does.
InvokeChangeFunc(ins, data) ==
  IF data = NULL THEN ins
  ELSE [ins EXCEPT ![data].fired = @ + 1, ![data].seen = pub_result]

\* GDestroyNotify (data)
InvokeNotify(ins, data) ==
  IF data = NULL THEN ins ELSE [ins EXCEPT ![data].released = @ + 1]

\* ====================================================== gst_promise_reply
\* lines 162-165.  The caller hands over a reply structure (transfer full):
\* NULL or a structure it has just allocated.  promise == NULL returns at
\* once; otherwise the mutex is taken.
reply_enter(t) ==
  /\ CanCall(t)
  /\ \E p \in BOOLEAN, fresh \in BOOLEAN :
       LET c == [Entering("reply", p) EXCEPT
                   !.s = IF fresh THEN Len(heap) + 1 ELSE NULL] IN
       /\ fresh => Len(heap) < MaxPayloads
       /\ heap' = IF fresh THEN Append(heap, 0) ELSE heap
       /\ IF ~p
          THEN /\ ReturnFrom(t, c, NoResult, NULL, FALSE)
               /\ UNCHANGED <<lock, firstLocker>>
          ELSE /\ MutexFree
               /\ lock' = t
               /\ th' = [th EXCEPT ![t] = [c EXCEPT !.pc = "check"]]
               /\ firstLocker' = IF firstLocker = "none" THEN "reply"
                                 ELSE firstLocker
               /\ UNCHANGED last
  /\ calls' = calls + 1
  /\ UNCHANGED <<result, reply, cond, change_func, user_data, notify, alive,
                 installs, warnings, winner, pub_result, pub_promise>>

\* Faulty variant: the check of lines 166-172 is missing.
reply_valid_any(r) == TRUE

\* Faulty variant: only an expired promise is refused.
reply_valid_unless_expired(r) == r # EXPIRED

\* lines 166-167 / 170-171: the results gst_promise_reply accepts
reply_valid(r) == r = PENDING \/ r = INTERRUPTED

\* Faulty variant: a reply also replaces an interrupt.
reply_sets_over_interrupt(r) == r = PENDING \/ r = INTERRUPTED

\* line 179: "Only reply iff we are currently in pending"
reply_sets(r) == r = PENDING

\* lines 175-176: an older reply that is not s is freed
reply_drop_old(h, old, s) ==
  IF old # NULL /\ old # s THEN gst_structure_free(h, old) ELSE h

\* Faulty variant: the refused structure is not freed.
reply_eat_leak(h, s) == h

\* lines 189-191: "eat the value"
reply_eat(h, s) == IF s # NULL THEN gst_structure_free(h, s) ELSE h

\* lines 166-192, with the mutex held
reply_check(t) ==
  /\ th[t].pc = "check" /\ th[t].op = "reply"
  /\ lock = t
  /\ IF ~reply_valid(result)
     THEN \* lines 168-171: unlock; g_return_if_fail logs and returns
          /\ lock' = NoThread
          /\ Return(t, NoResult, NULL, TRUE)
          /\ UNCHANGED <<result, reply, heap, winner>>
     ELSE IF reply_sets(result)
          THEN /\ result' = REPLIED
               /\ Wins(t)
               /\ reply' = th[t].s
               /\ heap' = reply_drop_old(heap, reply, th[t].s)
               /\ th' = [th EXCEPT ![t].pc =
                            IF change_func THEN "handler" ELSE "finish"]
               /\ UNCHANGED <<lock, last>>
          ELSE /\ heap' = reply_eat(reply_drop_old(heap, reply, th[t].s),
                                    th[t].s)
               /\ th' = [th EXCEPT ![t].pc = "finish"]
               /\ UNCHANGED <<result, reply, lock, winner, last>>
  /\ UNCHANGED <<cond, change_func, user_data, notify, alive, calls,
                 installs, warnings, firstLocker, pub_result, pub_promise>>

\* lines 185-187: the change function runs in the replying thread, with the
\* mutex held
reply_handler(t) ==
  /\ th[t].pc = "handler" /\ th[t].op = "reply"
  /\ lock = t
  /\ installs' = InvokeChangeFunc(installs, user_data)
  /\ th' = [th EXCEPT ![t].pc = "finish"]
  /\ UNCHANGED <<result, reply, lock, cond, change_func, user_data, notify,
                 alive, calls, heap, warnings, firstLocker, winner, last,
                 pub_result, pub_promise>>

\* lines 194-195: g_cond_broadcast, g_mutex_unlock
reply_finish(t) ==
  /\ th[t].pc = "finish" /\ th[t].op = "reply"
  /\ lock = t
  /\ cond' = g_cond_broadcast(cond)
  /\ lock' = NoThread
  /\ Return(t, NoResult, NULL, FALSE)
  /\ UNCHANGED <<result, reply, change_func, user_data, notify, alive, calls,
                 heap, installs, warnings, firstLocker, winner, pub_result,
                 pub_promise>>

gst_promise_reply(t) ==
  \/ reply_enter(t)
  \/ reply_check(t)
  \/ reply_handler(t)
  \/ reply_finish(t)

\* ================================================== gst_promise_interrupt
\* lines 234-236: g_return_if_fail (promise != NULL), then take the mutex
interrupt_enter(t) ==
  /\ CanCall(t)
  /\ \E p \in BOOLEAN :
       LET c == Entering("interrupt", p) IN
       IF ~p
       THEN /\ ReturnFrom(t, c, NoResult, NULL, TRUE)
            /\ UNCHANGED <<lock, firstLocker>>
       ELSE /\ MutexFree
            /\ lock' = t
            /\ th' = [th EXCEPT ![t] = [c EXCEPT !.pc = "check"]]
            /\ firstLocker' = IF firstLocker = "none" THEN "interrupt"
                              ELSE firstLocker
            /\ UNCHANGED last
  /\ calls' = calls + 1
  /\ UNCHANGED <<result, reply, cond, change_func, user_data, notify, alive,
                 heap, installs, warnings, winner, pub_result, pub_promise>>

\* Faulty variant: an interrupt after a reply is refused.
interrupt_valid_only_pending(r) == r = PENDING

\* Faulty variant: only an expired promise is refused.
interrupt_valid_unless_expired(r) == r # EXPIRED

\* lines 237-238 / 241-242: the results gst_promise_interrupt accepts
interrupt_valid(r) == r = PENDING \/ r = REPLIED

\* Faulty variant: an interrupt also replaces a reply.
interrupt_sets_over_reply(r) == r = PENDING \/ r = REPLIED

\* line 245: "only interrupt if we are currently in pending"
interrupt_sets(r) == r = PENDING

\* lines 237-248, with the mutex held; the broadcast of line 247 precedes
\* the change function
interrupt_check(t) ==
  /\ th[t].pc = "check" /\ th[t].op = "interrupt"
  /\ lock = t
  /\ IF ~interrupt_valid(result)
     THEN /\ lock' = NoThread
          /\ Return(t, NoResult, NULL, TRUE)
          /\ UNCHANGED <<result, cond, winner>>
     ELSE IF interrupt_sets(result)
          THEN /\ result' = INTERRUPTED
               /\ Wins(t)
               /\ cond' = g_cond_broadcast(cond)
               /\ th' = [th EXCEPT ![t].pc =
                            IF change_func THEN "handler" ELSE "unlock"]
               /\ UNCHANGED <<lock, last>>
          ELSE /\ th' = [th EXCEPT ![t].pc = "unlock"]
               /\ UNCHANGED <<result, cond, lock, winner, last>>
  /\ UNCHANGED <<reply, change_func, user_data, notify, alive, calls, heap,
                 installs, warnings, firstLocker, pub_result, pub_promise>>

\* lines 249-251
interrupt_handler(t) ==
  /\ th[t].pc = "handler" /\ th[t].op = "interrupt"
  /\ lock = t
  /\ installs' = InvokeChangeFunc(installs, user_data)
  /\ th' = [th EXCEPT ![t].pc = "unlock"]
  /\ UNCHANGED <<result, reply, lock, cond, change_func, user_data, notify,
                 alive, calls, heap, warnings, firstLocker, winner, last,
                 pub_result, pub_promise>>

\* line 253
interrupt_unlock(t) ==
  /\ th[t].pc = "unlock" /\ th[t].op = "interrupt"
  /\ lock = t
  /\ lock' = NoThread
  /\ Return(t, NoResult, NULL, FALSE)
  /\ UNCHANGED <<result, reply, cond, change_func, user_data, notify, alive,
                 calls, heap, installs, warnings, firstLocker, winner,
                 pub_result, pub_promise>>

gst_promise_interrupt(t) ==
  \/ interrupt_enter(t)
  \/ interrupt_check(t)
  \/ interrupt_handler(t)
  \/ interrupt_unlock(t)

\* ===================================================== gst_promise_expire
\* lines 266-268
expire_enter(t) ==
  /\ CanCall(t)
  /\ \E p \in BOOLEAN :
       LET c == Entering("expire", p) IN
       IF ~p
       THEN /\ ReturnFrom(t, c, NoResult, NULL, TRUE)
            /\ UNCHANGED <<lock, firstLocker>>
       ELSE /\ MutexFree
            /\ lock' = t
            /\ th' = [th EXCEPT ![t] = [c EXCEPT !.pc = "check"]]
            /\ firstLocker' = IF firstLocker = "none" THEN "expire"
                              ELSE firstLocker
            /\ UNCHANGED last
  /\ calls' = calls + 1
  /\ UNCHANGED <<result, reply, cond, change_func, user_data, notify, alive,
                 heap, installs, warnings, winner, pub_result, pub_promise>>

\* Faulty variant: expire replaces every result but its own.
expire_sets_unless_expired(r) == r # EXPIRED

\* Faulty variant: expire always sets the result and notifies.
expire_sets_always(r) == TRUE

\* Faulty variant: expire also replaces a reply.
expire_sets_over_reply(r) == r = PENDING \/ r = REPLIED

\* line 269
expire_sets(r) == r = PENDING

\* lines 269-272
expire_check(t) ==
  /\ th[t].pc = "check" /\ th[t].op = "expire"
  /\ lock = t
  /\ IF expire_sets(result)
     THEN /\ result' = EXPIRED
          /\ Wins(t)
          /\ cond' = g_cond_broadcast(cond)
          /\ th' = [th EXCEPT ![t].pc =
                       IF change_func THEN "handler" ELSE "unlock"]
     ELSE /\ th' = [th EXCEPT ![t].pc = "unlock"]
          /\ UNCHANGED <<result, cond, winner>>
  /\ UNCHANGED <<reply, lock, change_func, user_data, notify, alive, calls,
                 heap, installs, warnings, firstLocker, last, pub_result,
                 pub_promise>>

\* lines 273-275
expire_handler(t) ==
  /\ th[t].pc = "handler" /\ th[t].op = "expire"
  /\ lock = t
  /\ installs' = InvokeChangeFunc(installs, user_data)
  /\ th' = [th EXCEPT ![t].pc = "unlock"]
  /\ UNCHANGED <<result, reply, lock, cond, change_func, user_data, notify,
                 alive, calls, heap, warnings, firstLocker, winner, last,
                 pub_result, pub_promise>>

\* line 277
expire_unlock(t) ==
  /\ th[t].pc = "unlock" /\ th[t].op = "expire"
  /\ lock = t
  /\ lock' = NoThread
  /\ Return(t, NoResult, NULL, FALSE)
  /\ UNCHANGED <<result, reply, cond, change_func, user_data, notify, alive,
                 calls, heap, installs, warnings, firstLocker, winner,
                 pub_result, pub_promise>>

gst_promise_expire(t) ==
  \/ expire_enter(t)
  \/ expire_check(t)
  \/ expire_handler(t)
  \/ expire_unlock(t)

\* ======================================================= gst_promise_wait
\* lines 133-136: NULL returns EXPIRED with a critical; otherwise take the
\* mutex and read the result
wait_enter(t) ==
  /\ CanCall(t)
  /\ \E p \in BOOLEAN :
       LET c == Entering("wait", p) IN
       IF ~p
       THEN /\ ReturnFrom(t, c, EXPIRED, NULL, TRUE)
            /\ UNCHANGED <<lock>>
       ELSE /\ MutexFree
            /\ lock' = t
            /\ th' = [th EXCEPT ![t] = [c EXCEPT !.pc = "loop", !.ret = result]]
            /\ UNCHANGED last
  /\ calls' = calls + 1
  /\ UNCHANGED <<result, reply, cond, change_func, user_data, notify, alive,
                 heap, installs, warnings, firstLocker, winner, pub_result,
                 pub_promise>>

\* Faulty variant: gst_promise_wait never blocks.
wait_again_never(ret) == FALSE

\* line 138: the loop condition of gst_promise_wait
wait_again(ret) == ret = PENDING

\* lines 138-147: either block in g_cond_wait (which releases the mutex), or
\* unlock and return ret
wait_loop(t) ==
  /\ th[t].pc = "loop" /\ th[t].op = "wait"
  /\ lock = t
  /\ lock' = NoThread
  /\ IF wait_again(th[t].ret)
     THEN /\ cond' = cond \cup {t}
          /\ th' = [th EXCEPT ![t].pc = "waiting"]
          /\ UNCHANGED last
     ELSE /\ Return(t, th[t].ret, NULL, FALSE)
          /\ UNCHANGED cond
  /\ UNCHANGED <<result, reply, change_func, user_data, notify, alive, calls,
                 heap, installs, warnings, firstLocker, winner, pub_result,
                 pub_promise>>

\* g_cond_wait may return without any broadcast (a spurious wakeup)
wait_spurious(t) ==
  /\ th[t].pc = "waiting" /\ th[t].op = "wait"
  /\ t \in cond
  /\ cond' = cond \ {t}
  /\ UNCHANGED <<result, reply, lock, change_func, user_data, notify, alive,
                 th, calls, heap, installs, warnings, firstLocker, winner,
                 last, pub_result, pub_promise>>

\* Faulty variant: the woken waiter re-reads the result without waiting
\* for the mutex.
wait_wake_unlocked(t) ==
  /\ th[t].pc = "waiting" /\ th[t].op = "wait"
  /\ t \notin cond
  /\ lock' = t
  /\ th' = [th EXCEPT ![t].pc = "loop", ![t].ret = result]
  /\ UNCHANGED <<result, reply, cond, change_func, user_data, notify, alive,
                 calls, heap, installs, warnings, firstLocker, winner, last,
                 pub_result, pub_promise>>

\* lines 140-141: g_cond_wait returns with the mutex held again; re-read
wait_wake(t) ==
  /\ th[t].pc = "waiting" /\ th[t].op = "wait"
  /\ t \notin cond
  /\ MutexFree
  /\ lock' = t
  /\ th' = [th EXCEPT ![t].pc = "loop", ![t].ret = result]
  /\ UNCHANGED <<result, reply, cond, change_func, user_data, notify, alive,
                 calls, heap, installs, warnings, firstLocker, winner, last,
                 pub_result, pub_promise>>

gst_promise_wait(t) ==
  \/ wait_enter(t)
  \/ wait_loop(t)
  \/ wait_spurious(t)
  \/ wait_wake(t)

\* ================================================== gst_promise_get_reply
\* lines 210-212
get_reply_enter(t) ==
  /\ CanCall(t)
  /\ \E p \in BOOLEAN :
       LET c == Entering("get_reply", p) IN
       IF ~p
       THEN /\ ReturnFrom(t, c, NoResult, NULL, TRUE)
            /\ UNCHANGED <<lock>>
       ELSE /\ MutexFree
            /\ lock' = t
            /\ th' = [th EXCEPT ![t] = [c EXCEPT !.pc = "check"]]
            /\ UNCHANGED last
  /\ calls' = calls + 1
  /\ UNCHANGED <<result, reply, cond, change_func, user_data, notify, alive,
                 heap, installs, warnings, firstLocker, winner, pub_result,
                 pub_promise>>

\* Faulty variant: only a pending promise is refused.
get_reply_valid_unless_pending(r) == r # PENDING

\* lines 213 / 216: the result gst_promise_get_reply accepts
get_reply_valid(r) == r = REPLIED

\* Faulty variant: the refusal path returns without unlocking.
get_reply_check_no_unlock(t) ==
  /\ th[t].pc = "check" /\ th[t].op = "get_reply"
  /\ lock = t
  /\ IF ~get_reply_valid(result)
     THEN /\ Return(t, NoResult, NULL, TRUE)
          /\ UNCHANGED lock
     ELSE /\ lock' = NoThread
          /\ th' = [th EXCEPT ![t].pc = "read"]
          /\ UNCHANGED last
  /\ UNCHANGED <<result, reply, cond, change_func, user_data, notify, alive,
                 calls, heap, installs, warnings, firstLocker, winner,
                 pub_result, pub_promise>>

\* lines 213-219: the mutex is released on both paths
get_reply_check(t) ==
  /\ th[t].pc = "check" /\ th[t].op = "get_reply"
  /\ lock = t
  /\ lock' = NoThread
  /\ IF ~get_reply_valid(result)
     THEN Return(t, NoResult, NULL, TRUE)
     ELSE /\ th' = [th EXCEPT ![t].pc = "read"]
          /\ UNCHANGED last
  /\ UNCHANGED <<result, reply, cond, change_func, user_data, notify, alive,
                 calls, heap, installs, warnings, firstLocker, winner,
                 pub_result, pub_promise>>

\* line 221: the reply is read after the mutex has been released
get_reply_read(t) ==
  /\ th[t].pc = "read" /\ th[t].op = "get_reply"
  /\ Return(t, NoResult, reply, FALSE)
  /\ UNCHANGED <<result, reply, lock, cond, change_func, user_data, notify,
                 alive, calls, heap, installs, warnings, firstLocker, winner,
                 pub_result, pub_promise>>

gst_promise_get_reply(t) ==
  \/ get_reply_enter(t)
  \/ get_reply_check(t)
  \/ get_reply_read(t)

\* ================================================= gst_promise_get_result
\* Faulty variant: the result is read with the mutex taken.
get_result_read_locked(t) ==
  /\ CanCall(t)
  /\ MutexFree
  /\ \E p \in BOOLEAN :
       LET c == Entering("get_result", p) IN
       IF ~p
       THEN ReturnFrom(t, c, EXPIRED, NULL, TRUE)
       ELSE ReturnFrom(t, c, result, NULL, FALSE)
  /\ calls' = calls + 1
  /\ UNCHANGED <<result, reply, lock, cond, change_func, user_data, notify,
                 alive, heap, installs, warnings, firstLocker, winner,
                 pub_result, pub_promise>>

\* lines 292-294: the result is read without taking the mutex
get_result_read(t) ==
  /\ CanCall(t)
  /\ \E p \in BOOLEAN :
       LET c == Entering("get_result", p) IN
       IF ~p
       THEN ReturnFrom(t, c, EXPIRED, NULL, TRUE)
       ELSE ReturnFrom(t, c, result, NULL, FALSE)
  /\ calls' = calls + 1
  /\ UNCHANGED <<result, reply, lock, cond, change_func, user_data, notify,
                 alive, heap, installs, warnings, firstLocker, winner,
                 pub_result, pub_promise>>

gst_promise_get_result(t) ==
  get_result_read(t)

\* ======================================== gst_promise_set_change_callback
\* lines 102-104.  func and notify may each be NULL; user_data is a fresh
\* context.
set_change_callback_enter(t) ==
  /\ CanCall(t)
  /\ Len(installs) < MaxInstalls
  /\ \E p \in BOOLEAN, f \in BOOLEAN, n \in BOOLEAN :
       LET c == [Entering("set_change_callback", p) EXCEPT
                   !.func = f, !.data = Len(installs) + 1, !.ntf = n] IN
       /\ installs' = Append(installs,
            [func |-> f, notify |-> n, stored |-> FALSE,
             fired |-> 0, released |-> 0, seen |-> NoResult])
       /\ IF ~p
          THEN /\ ReturnFrom(t, c, NoResult, NULL, TRUE)
               /\ UNCHANGED lock
          ELSE /\ MutexFree
               /\ lock' = t
               /\ th' = [th EXCEPT ![t] = [c EXCEPT !.pc = "swap"]]
               /\ UNCHANGED last
  /\ calls' = calls + 1
  /\ UNCHANGED <<result, reply, cond, change_func, user_data, notify, alive,
                 heap, warnings, firstLocker, winner, pub_result,
                 pub_promise>>

\* Faulty variant: the mutex is still held when the previous notify runs.
set_change_callback_swap_locked(t) ==
  /\ th[t].pc = "swap" /\ th[t].op = "set_change_callback"
  /\ lock = t
  /\ th' = [th EXCEPT ![t].pc = "notify", ![t].prev_notify = notify,
                      ![t].prev_data = user_data]
  /\ change_func' = th[t].func
  /\ user_data' = th[t].data
  /\ notify' = th[t].ntf
  /\ installs' = [installs EXCEPT ![th[t].data].stored = TRUE]
  /\ UNCHANGED <<result, reply, lock, cond, alive, calls, heap, warnings,
                 firstLocker, winner, last, pub_result, pub_promise>>

\* Faulty variant: a change function installed on a resolved promise is
\* called at once.
set_change_callback_swap_fires(t) ==
  /\ th[t].pc = "swap" /\ th[t].op = "set_change_callback"
  /\ lock = t
  /\ lock' = NoThread
  /\ th' = [th EXCEPT ![t].pc = "notify", ![t].prev_notify = notify,
                      ![t].prev_data = user_data]
  /\ change_func' = th[t].func
  /\ user_data' = th[t].data
  /\ notify' = th[t].ntf
  /\ installs' = [installs EXCEPT
                    ![th[t].data].stored = TRUE,
                    ![th[t].data].fired =
                       IF result # PENDING /\ th[t].func THEN @ + 1 ELSE @]
  /\ UNCHANGED <<result, reply, cond, alive, calls, heap, warnings,
                 firstLocker, winner, last, pub_result, pub_promise>>

\* lines 106-112: remember the previous notify and data, store the new
\* triple, unlock
set_change_callback_swap(t) ==
  /\ th[t].pc = "swap" /\ th[t].op = "set_change_callback"
  /\ lock = t
  /\ th' = [th EXCEPT ![t].pc = "notify", ![t].prev_notify = notify,
                      ![t].prev_data = user_data]
  /\ change_func' = th[t].func
  /\ user_data' = th[t].data
  /\ notify' = th[t].ntf
  /\ installs' = [installs EXCEPT ![th[t].data].stored = TRUE]
  /\ lock' = NoThread
  /\ UNCHANGED <<result, reply, cond, alive, calls, heap, warnings,
                 firstLocker, winner, last, pub_result, pub_promise>>

\* Faulty variant: the previous notify is dropped without being called.
set_change_callback_notify_forgets(t) ==
  /\ th[t].pc = "notify" /\ th[t].op = "set_change_callback"
  /\ Return(t, NoResult, NULL, FALSE)
  /\ UNCHANGED <<result, reply, lock, cond, change_func, user_data, notify,
                 alive, calls, heap, installs, warnings, firstLocker, winner,
                 pub_result, pub_promise>>

\* lines 114-115: the previous notify runs after the unlock
set_change_callback_notify(t) ==
  /\ th[t].pc = "notify" /\ th[t].op = "set_change_callback"
  /\ installs' = IF th[t].prev_notify
                 THEN InvokeNotify(installs, th[t].prev_data)
                 ELSE installs
  /\ Return(t, NoResult, NULL, FALSE)
  /\ UNCHANGED <<result, reply, lock, cond, change_func, user_data, notify,
                 alive, calls, heap, warnings, firstLocker, winner,
                 pub_result, pub_promise>>

gst_promise_set_change_callback(t) ==
  \/ set_change_callback_enter(t)
  \/ set_change_callback_swap(t)
  \/ set_change_callback_notify(t)

\* ======================================================= gst_promise_free
\* Faulty variant: no warning for a promise destroyed while pending.
free_warns_never(r) == FALSE

\* line 303: g_warn_if_fail (result != PENDING) logs a warning
free_warns(r) == r = PENDING

\* Runs when the last reference is dropped, so no thread is inside a call.
gst_promise_free ==
  /\ alive
  /\ \A t \in Threads : th[t].pc = "idle"
  /\ warnings' = IF free_warns(result) THEN warnings + 1 ELSE warnings
  /\ installs' = IF notify THEN InvokeNotify(installs, user_data)
                 ELSE installs
  /\ heap' = IF reply # NULL THEN gst_structure_free(heap, reply) ELSE heap
  /\ alive' = FALSE
  /\ UNCHANGED <<result, reply, lock, cond, change_func, user_data, notify,
                 th, calls, firstLocker, winner, last, pub_result,
                 pub_promise>>

Next ==
  \/ \E t \in Threads : gst_promise_reply(t)
  \/ \E t \in Threads : gst_promise_interrupt(t)
  \/ \E t \in Threads : gst_promise_expire(t)
  \/ \E t \in Threads : gst_promise_wait(t)
  \/ \E t \in Threads : gst_promise_get_reply(t)
  \/ \E t \in Threads : gst_promise_get_result(t)
  \/ \E t \in Threads : gst_promise_set_change_callback(t)
  \/ gst_promise_free

Spec == Init /\ [][Next]_vars

\* A thread inside a call keeps running: every step that continues a call
\* is eventually taken when it stays possible.  Nothing obliges a thread to
\* start a call, g_cond_wait to wake up spuriously, or the last reference
\* to be dropped.
Continue(t) ==
  \/ reply_check(t) \/ reply_handler(t) \/ reply_finish(t)
  \/ interrupt_check(t) \/ interrupt_handler(t) \/ interrupt_unlock(t)
  \/ expire_check(t) \/ expire_handler(t) \/ expire_unlock(t)
  \/ wait_loop(t) \/ wait_wake(t)
  \/ get_reply_check(t) \/ get_reply_read(t)
  \/ set_change_callback_swap(t) \/ set_change_callback_notify(t)

FairSpec == Spec /\ \A t \in Threads : WF_vars(Continue(t))

\* =================================================================
\* Properties
\* =================================================================

\* change_count of the tests' on_change: how often a change function has
\* been invoked, over all installations
RECURSIVE SumFired(_)
SumFired(ins) == IF ins = <<>> THEN 0 ELSE Head(ins).fired + SumFired(Tail(ins))

change_count == SumFired(installs)

\* The result a call of op establishes on a pending promise.
TerminalOf(op) ==
  CASE op = "reply" -> REPLIED
    [] op = "interrupt" -> INTERRUPTED
    [] op = "expire" -> EXPIRED
    [] OTHER -> PENDING

Transitions == {"reply", "interrupt", "expire"}

\* Thread t is inside gst_promise_wait.
InWait(t) == th[t].op = "wait"

\* C1: the result is PENDING initially and always one of the four results;
\* once it is not PENDING, no step of any call changes it.
C1_ResultMonotonic ==
  /\ result = PENDING
  /\ [][/\ result' \in GstPromiseResult
        /\ result # PENDING => result' = result]_vars

\* An expire has returned on a promise that an interrupt had resolved.
C1_Witness ==
  /\ result = INTERRUPTED
  /\ winner.op = "interrupt"
  /\ last.op = "expire" /\ last.promise

\* C2: of the reply, interrupt and expire calls made on the promise, the
\* first to acquire the mutex is the one that resolves it, and the result is
\* the one that call stands for.
C2_FirstLockerWins ==
  /\ result # PENDING => result = TerminalOf(firstLocker)
  /\ winner.op # "none" => winner.op = firstLocker

\* A transition call of another kind than the first locker has returned.
C2_Witness ==
  /\ result # PENDING
  /\ last.promise
  /\ last.op \in Transitions
  /\ last.op # firstLocker

\* C3: once the promise has left PENDING, every thread that is inside
\* gst_promise_wait (blocked or not) eventually returns from it.
C3_NoLostWakeup ==
  \A t \in Threads : (InWait(t) /\ result # PENDING) ~> ~InWait(t)

\* Two waiters have been woken after the promise was resolved.
C3_Witness ==
  /\ result # PENDING
  /\ Cardinality({t \in Threads :
                    th[t].pc = "waiting" /\ t \notin cond}) >= 2

\* C4: gst_promise_wait on a promise returns a terminal result, the one the
\* promise holds (and keeps).
C4_WaitReturnsTerminal ==
  (last.op = "wait" /\ last.promise) =>
     /\ last.ret \in {INTERRUPTED, REPLIED, EXPIRED}
     /\ last.ret = result

\* One waiter has returned and another is about to return the same result.
C4_Witness ==
  /\ last.op = "wait" /\ last.promise
  /\ \E t \in Threads :
       th[t].op = "wait" /\ th[t].pc = "loop" /\ th[t].ret = last.ret

\* C5: the change function installed when the promise leaves PENDING is
\* invoked exactly once, by the call that resolved the promise; no other
\* call invokes a change function.
C5_HandlerOnce ==
  /\ change_count <= 1
  /\ \A t \in Threads :
       th[t].pc = "handler" =>
         change_count = 0 /\ lock = t /\ winner.op = th[t].op
  /\ (\A t \in Threads : th[t].pc # "handler") =>
       change_count = IF winner.op # "none" /\ winner.func THEN 1 ELSE 0
  /\ (winner.func /\ change_count = 1) => installs[winner.data].fired = 1

\* The change function has run and a losing transition call has returned.
C5_Witness ==
  /\ change_count = 1
  /\ last.promise
  /\ last.op \in Transitions
  /\ last.op # winner.op

\* C6: after reply (P1) has resolved the promise, the promise keeps P1,
\* unfreed, until it is destroyed; gst_promise_get_reply returns P1 and
\* gst_promise_wait returns REPLIED.
C6_ReplyKept ==
  winner.op = "reply" =>
    /\ result = REPLIED
    /\ alive => (reply = winner.s /\ (winner.s # NULL => heap[winner.s] = 0))
    /\ (last.op = "get_reply" /\ last.promise /\ ~last.crit) =>
         last.ret_reply = winner.s
    /\ (last.op = "wait" /\ last.promise) => last.ret = REPLIED

\* reply (P2) has been refused on a promise that holds P1.
C6_Witness ==
  /\ winner.op = "reply" /\ winner.s # NULL
  /\ last.op = "reply" /\ last.promise /\ last.crit
  /\ last.s # NULL /\ last.s # winner.s
  /\ reply = winner.s

\* C7: gst_promise_reply on a REPLIED or EXPIRED promise logs a critical and
\* returns; result, stored reply and change function invocations are as
\* before.
C7_RejectedReplyIsCritical ==
  [][\A t \in Threads :
       (/\ th[t].op = "reply" /\ th[t].pc = "check"
        /\ result \in {REPLIED, EXPIRED}
        /\ th'[t] # th[t])
       => /\ th'[t] = IdleThread
          /\ last'.op = "reply" /\ last'.crit
          /\ result' = result
          /\ reply' = reply
          /\ installs' = installs
          /\ reply # NULL => heap'[reply] = heap[reply]]_vars

\* A reply has been refused.
C7_Witness ==
  /\ result \in {REPLIED, EXPIRED}
  /\ last.op = "reply" /\ last.promise /\ last.crit

\* C8: a refused gst_promise_reply (promise, s) has freed s, once, when it
\* returns.
C8_RejectedReplyReleased ==
  (last.op = "reply" /\ last.promise /\ last.crit /\ last.s # NULL) =>
     heap[last.s] = 1

\* C9: gst_promise_reply (NULL, s) logs no critical and has freed s when it
\* returns.
C9_NullPromiseReplyReleases ==
  (last.op = "reply" /\ ~last.promise) =>
     /\ ~last.crit
     /\ last.s # NULL => heap[last.s] = 1

\* C10: gst_promise_reply (promise, s) on an INTERRUPTED promise goes through
\* without a critical: the result stays INTERRUPTED, s is freed and not
\* stored, no change function is invoked.
C10_ReplyAfterInterrupt ==
  [][\A t \in Threads :
       (th[t].op = "reply" /\ result = INTERRUPTED /\ th'[t] # th[t])
       => /\ result' = INTERRUPTED
          /\ reply = NULL /\ reply' = NULL
          /\ installs' = installs
          /\ th[t].pc \in {"check", "finish"}
          /\ th[t].pc = "check" =>
               /\ th'[t].pc = "finish"
               /\ th[t].s # NULL => heap'[th[t].s] = 1
          /\ th[t].pc = "finish" =>
               /\ last'.op = "reply" /\ ~last'.crit
               /\ th[t].s # NULL => heap'[th[t].s] = 1]_vars

\* A reply carrying a structure has returned from an INTERRUPTED promise.
C10_Witness ==
  /\ result = INTERRUPTED
  /\ last.op = "reply" /\ last.promise /\ ~last.crit
  /\ last.s # NULL /\ heap[last.s] = 1

\* C11: gst_promise_interrupt on a REPLIED promise does nothing: it logs no
\* critical, the result stays REPLIED, the reply structure is kept and not
\* freed, and no change function is invoked.
C11_InterruptAfterReply ==
  [][\A t \in Threads :
       (th[t].op = "interrupt" /\ result = REPLIED /\ th'[t] # th[t])
       => /\ result' = REPLIED
          /\ reply' = reply
          /\ heap' = heap
          /\ installs' = installs
          /\ th[t].pc \in {"check", "unlock"}
          /\ th[t].pc = "check" => th'[t].pc = "unlock"
          /\ th[t].pc = "unlock" =>
               /\ last'.op = "interrupt" /\ ~last'.crit
               /\ lock' = NoThread]_vars

\* An interrupt has returned from a promise whose reply had notified the
\* change function.
C11_Witness ==
  /\ result = REPLIED /\ reply # NULL
  /\ last.op = "interrupt" /\ last.promise /\ ~last.crit
  /\ change_count = 1

\* C12: gst_promise_interrupt on an INTERRUPTED or EXPIRED promise logs a
\* critical and returns; the result and the number of change function
\* invocations are unchanged.
C12_RejectedInterruptIsCritical ==
  [][\A t \in Threads :
       (/\ th[t].op = "interrupt" /\ th[t].pc = "check"
        /\ result \in {INTERRUPTED, EXPIRED}
        /\ th'[t] # th[t])
       => /\ last'.op = "interrupt" /\ last'.crit
          /\ th'[t].pc = "idle"
          /\ lock' = NoThread
          /\ result' = result
          /\ reply' = reply
          /\ SumFired(installs') = SumFired(installs)]_vars

\* An interrupt has been refused on an expired promise whose change
\* function had been notified.
C12_Witness ==
  /\ result = EXPIRED
  /\ last.op = "interrupt" /\ last.promise /\ last.crit
  /\ change_count = 1

\* C13: gst_promise_expire on a PENDING promise sets EXPIRED and invokes the
\* installed change function once; on any other result it logs nothing and
\* changes neither the result, the reply nor the invocation count.
C13_ExpireTolerant ==
  [][\A t \in Threads :
       (th[t].op = "expire" /\ th'[t] # th[t])
       => /\ th[t].pc \in {"check", "handler", "unlock"}
          /\ (th[t].pc = "check" /\ result = PENDING) =>
               /\ result' = EXPIRED
               /\ th'[t].pc = IF change_func THEN "handler" ELSE "unlock"
               /\ installs' = installs
          /\ (th[t].pc = "check" /\ result # PENDING) =>
               /\ th'[t].pc = "unlock"
               /\ result' = result
               /\ reply' = reply
               /\ heap' = heap
               /\ installs' = installs
          /\ th[t].pc = "handler" =>
               /\ result = EXPIRED /\ result' = EXPIRED
               /\ SumFired(installs') = SumFired(installs) + 1
               /\ th'[t].pc = "unlock"
          /\ th[t].pc = "unlock" =>
               /\ last'.op = "expire" /\ ~last'.crit
               /\ result' = result
               /\ reply' = reply
               /\ heap' = heap
               /\ installs' = installs]_vars

\* An expire has returned and a second one has found the promise EXPIRED,
\* the change function having been invoked once.
C13_Witness ==
  /\ result = EXPIRED /\ winner.op = "expire"
  /\ last.op = "expire" /\ last.promise
  /\ change_count = 1
  /\ \E t \in Threads : th[t].op = "expire" /\ th[t].pc = "unlock"

\* C14: gst_promise_get_reply on a promise that is not REPLIED logs a
\* critical and returns NULL, with the mutex released and the promise
\* unchanged.
C14_GetReplyRejected ==
  [][\A t \in Threads :
       (/\ th[t].op = "get_reply" /\ th[t].pc = "check"
        /\ result # REPLIED
        /\ th'[t] # th[t])
       => /\ last'.op = "get_reply" /\ last'.crit
          /\ last'.ret_reply = NULL
          /\ th'[t].pc = "idle"
          /\ lock' = NoThread
          /\ result' = result
          /\ reply' = reply
          /\ heap' = heap
          /\ installs' = installs]_vars

\* gst_promise_get_reply has been refused on an interrupted promise.
C14_Witness ==
  /\ result = INTERRUPTED
  /\ last.op = "get_reply" /\ last.promise
  /\ last.crit /\ last.ret_reply = NULL
  /\ lock = NoThread

\* C15: the promise holds a reply structure only while its result is
\* REPLIED.
C15_ReplyOnlyWhenReplied == reply # NULL => result = REPLIED

\* A reply carrying a structure has returned from a promise that an
\* interrupt or expire had resolved, and the promise holds no structure.
C15_Witness ==
  /\ result \in {INTERRUPTED, EXPIRED}
  /\ last.op = "reply" /\ last.promise /\ last.s # NULL
  /\ reply = NULL

\* The (change_func, user_data, notify) triple of the promise.
ChangeTriple == <<change_func, user_data, notify>>

\* C16: gst_promise_set_change_callback stores the three callback fields in
\* one step made with the mutex held, so they always belong to one
\* installation; it calls the notify of the installation it replaced only
\* when it no longer holds the mutex, which a notify that calls back into
\* the promise can therefore take.
C16_SwapUnderMutex ==
  /\ [](/\ \A t \in Threads : th[t].pc = "notify" => lock # t
        /\ user_data = NULL => (~change_func /\ ~notify)
        /\ user_data # NULL =>
             /\ installs[user_data].stored
             /\ change_func = installs[user_data].func
             /\ notify = installs[user_data].notify)
  /\ [][ChangeTriple' # ChangeTriple =>
          \E t \in Threads :
            /\ lock = t
            /\ th[t].op = "set_change_callback" /\ th[t].pc = "swap"
            /\ ChangeTriple' = <<th[t].func, th[t].data, th[t].ntf>>
            /\ th'[t].prev_notify = notify
            /\ th'[t].prev_data = user_data
            /\ lock' = NoThread]_vars
  /\ [][\A t \in Threads :
          (th[t].pc = "notify" /\ th'[t] # th[t])
          => /\ lock # t
             /\ installs' = IF th[t].prev_notify
                            THEN InvokeNotify(installs, th[t].prev_data)
                            ELSE installs]_vars

\* A thread is about to call the notify of the installation it replaced
\* while another thread holds the mutex.
C16_Witness ==
  \E t, u \in Threads :
    /\ t # u
    /\ th[t].pc = "notify" /\ th[t].prev_notify
    /\ lock = u

\* C17: the notify of an installation stored in the promise has run once
\* when the installation has been replaced or the promise destroyed, and
\* not at all before; no notify runs twice.
C17_NotifyOnce ==
  \A i \in 1..Len(installs) :
    /\ installs[i].released <= 1
    /\ (installs[i].stored /\ installs[i].notify) =>
         installs[i].released =
           IF \/ alive /\ user_data = i
              \/ \E t \in Threads : th[t].pc = "notify" /\ th[t].prev_data = i
           THEN 0 ELSE 1
    /\ ~(installs[i].stored /\ installs[i].notify) =>
         installs[i].released = 0

\* One installation has been replaced by another and the promise has been
\* destroyed: both notifies have run.
C17_Witness ==
  /\ ~alive
  /\ \E i, j \in 1..Len(installs) :
       /\ i # j
       /\ installs[i].stored /\ installs[i].notify
       /\ installs[j].stored /\ installs[j].notify
       /\ installs[i].released = 1 /\ installs[j].released = 1

\* C18: gst_promise_free logs a warning exactly when the result is PENDING,
\* and whatever the result it frees the reply structure the promise holds
\* and calls the notify of the installed change callback.
C18_FreeReleases ==
  [][(alive /\ ~alive')
     => /\ warnings' = IF result = PENDING THEN warnings + 1 ELSE warnings
        /\ heap' = IF reply # NULL THEN [heap EXCEPT ![reply] = @ + 1]
                   ELSE heap
        /\ reply # NULL => heap[reply] = 0
        /\ installs' = IF notify
                       THEN [installs EXCEPT ![user_data].released = @ + 1]
                       ELSE installs]_vars

\* A promise has been destroyed while PENDING with a notify installed.
C18_Witness ==
  /\ ~alive
  /\ result = PENDING
  /\ warnings = 1
  /\ user_data # NULL /\ installs[user_data].notify
  /\ installs[user_data].released = 1

\* C19: the result field of the GstPromise handed to the change function
\* (promise->result) is the result the winning call has just set, which is
\* the result the promise keeps.
C19_CallbackSeesResult ==
  \A i \in 1..Len(installs) :
    installs[i].fired > 0 => installs[i].seen = result

\* C20: once a reply carrying structure P has resolved the promise and
\* gst_promise_wait has returned REPLIED, the promise field of the
\* GstPromise (r->promise) is P.
C20_PublicReplyField ==
  (/\ winner.op = "reply"
   /\ last.op = "wait" /\ last.promise /\ last.ret = REPLIED)
  => pub_promise = winner.s

\* C21: gst_promise_get_result can always be carried out by a thread that
\* is free to call it, whoever holds the mutex, and no thread is ever
\* held up inside it; it neither takes nor releases the mutex and returns
\* the result as it is, PENDING included (EXPIRED for a NULL promise).
C21_GetResultNeverBlocks ==
  /\ [](\A t \in Threads :
          /\ CanCall(t) => ENABLED get_result_read(t)
          /\ th[t].op # "get_result")
  /\ [][(calls' = calls + 1 /\ th' = th /\ last'.op = "get_result")
        => /\ lock' = lock
           /\ result' = result
           /\ last'.ret = IF last'.promise THEN result ELSE EXPIRED]_vars

\* gst_promise_get_result has returned the new result while the thread
\* that set it is still about to run the change function under the mutex.
C21_Witness ==
  /\ last.op = "get_result" /\ last.promise
  /\ last.ret # PENDING /\ last.ret = result
  /\ \E u \in Threads : th[u].pc = "handler" /\ lock = u

\* The change function in place when the promise left PENDING has run.
HandlerDone == winner.func => installs[winner.data].fired = 1

\* C22: a thread about to invoke the change function is the thread of the
\* reply, interrupt or expire that has set the result, and it holds the
\* mutex; a gst_promise_wait that has read or returned a result other than
\* PENDING does so after that invocation.
C22_HandlerUnderMutex ==
  /\ \A t \in Threads :
       th[t].pc = "handler" =>
         /\ th[t].op \in Transitions
         /\ lock = t
         /\ result = TerminalOf(th[t].op)
         /\ winner.op = th[t].op
         /\ ~HandlerDone
  /\ \A t \in Threads :
       (InWait(t) /\ th[t].ret \in GstPromiseResult \ {PENDING})
       => HandlerDone
  /\ (last.op = "wait" /\ last.promise /\ last.ret # PENDING) => HandlerDone

\* A waiter woken by the broadcast is still kept out by the mutex while
\* the change function has not run.
C22_Witness ==
  \E t, u \in Threads :
    /\ th[u].pc = "handler"
    /\ th[t].pc = "waiting" /\ t \notin cond

\* The step is thread t reading or writing the result, the reply or the
\* change callback fields of the promise.
Access(t) ==
  \/ reply_check(t) \/ reply_handler(t)
  \/ interrupt_check(t) \/ interrupt_handler(t)
  \/ expire_check(t) \/ expire_handler(t)
  \/ wait_enter(t) /\ th'[t].pc = "loop"
  \/ wait_wake(t)
  \/ get_reply_check(t) \/ get_reply_read(t)
  \/ get_result_read(t) /\ last'.promise
  \/ set_change_callback_swap(t)

\* Thread t holds the mutex in the course of the step: it held it before
\* the step or has taken it in the step.
HoldsMutex(t) == lock = t \/ lock' = t

\* C23: every step of a call that reads or writes the result, the reply or
\* the change callback fields is made by a thread that holds the mutex.
C23_AccessUnderMutex ==
  [][\A t \in Threads : Access(t) => HoldsMutex(t)]_vars

\* The positions of a call between its g_mutex_lock (or the return of
\* g_cond_wait) and its next g_mutex_unlock (or g_cond_wait).
LockedPcs == {"check", "handler", "finish", "unlock", "loop", "swap"}

\* C24: the mutex is held by a thread exactly while that thread is between
\* a lock and the matching unlock of a call, so never by a thread that has
\* returned, on the refusal paths as on the others; it is only taken when
\* free, by the thread making the step, and only released by the step of
\* the thread that holds it.
C24_LockDiscipline ==
  /\ [](/\ lock \in Threads \cup {NoThread}
        /\ \A t \in Threads : lock = t <=> th[t].pc \in LockedPcs)
  /\ [][lock' # lock =>
          \/ /\ lock = NoThread
             /\ lock' \in Threads
             /\ th[lock'].pc \notin LockedPcs
             /\ th'[lock'].pc \in LockedPcs
          \/ /\ lock \in Threads
             /\ lock' = NoThread
             /\ th'[lock].pc \notin LockedPcs]_vars
  /\ [][\A t \in Threads :
          (th[t].pc # "idle" /\ th'[t].pc = "idle") => lock' # t]_vars

\* After a reply has been refused, another call has taken the mutex.
C24_Witness ==
  /\ last.op = "reply" /\ last.promise /\ last.crit
  /\ lock # NoThread

\* C25: whenever a change function is invoked, it is that of the
\* installation the promise holds, whose notify has neither run nor is
\* about to be run by a thread that has replaced it.
C25_NoCallAfterNotify ==
  [][\A i \in 1..Len(installs) :
       installs'[i].fired > installs[i].fired
       => /\ user_data = i
          /\ installs[i].released = 0
          /\ installs'[i].released = 0
          /\ \A t \in Threads :
               ~(th[t].pc = "notify" /\ th[t].prev_data = i)]_vars

\* An installation whose change function has been invoked has since been
\* replaced and its notify run, the promise still existing.
C25_Witness ==
  /\ alive
  /\ \E i \in 1..Len(installs) :
       /\ installs[i].fired = 1
       /\ installs[i].released = 1

\* C26: only the installation in place at the moment the result leaves
\* PENDING is ever invoked, so one stored after that moment never is;
\* gst_promise_set_change_callback itself invokes no change function.
C26_LateHandlerSilent ==
  /\ [](\A i \in 1..Len(installs) :
          (winner.op = "none" \/ winner.data # i) => installs[i].fired = 0)
  /\ [][\A t \in Threads :
          (th[t].op = "set_change_callback" /\ th'[t] # th[t])
          => SumFired(installs') = SumFired(installs)]_vars

\* A change function was stored after the result had left PENDING, the
\* storing call has returned, a later reply, interrupt or expire has
\* returned as well, and the function has not been invoked.
C26_Witness ==
  /\ result # PENDING
  /\ user_data # NULL /\ winner.data # user_data
  /\ installs[user_data].func
  /\ installs[user_data].fired = 0
  /\ \A t \in Threads : th[t].pc = "idle"
  /\ last.op \in Transitions /\ last.promise
====
